---- MODULE Spec2Model ----
(***************************************************************************)
(* Model of the WhatsApp bot (src/whatsapp-bot/index.js, class WhatsAppBot) *)
(* as a state machine.  Node.js runs one callback at a time, so every      *)
(* action below is the code that runs between two suspension points        *)
(* (await of the reasoning call, await of the transport send).             *)
(***************************************************************************)
EXTENDS Integers, Sequences, FiniteSets, TLC

\* ------------------------------------------------------------------ bounds
MaxInbound == 2     \* inbound messages in one behaviour
MaxReqs   == 2      \* webhook deliveries in one behaviour
MaxMsgs   == 2      \* messages carried by one webhook delivery
MaxTime   == 25     \* the clock stops here (hours)
DigestLen == 1      \* length of the hex digest of the keyed hash (scaled)

\* --------------------------------------------------------------- constants
maxAge == 24        \* idle threshold of the sweep, in hours

\* ------------------------------------------------------------------ values
NoHeader  == <<"undefined">>      \* the request carries no signature header
NoContext == {"null"}             \* a response whose context is absent or null
TickSteps == {24, 25}             \* amounts by which the clock advances
Phones    == { <<"5","0","6","8">>, <<"+","8","7">> }
Digits    == {"0","1","2","3","4","5","6","7","8","9"}
Hex       == {"a","b"}
Keys      == {"k1"}
\* A context is an opaque mapping; it is modelled by its set of keys.
Contexts  == SUBSET Keys
EmptyContext == {}
EngineText == "respuesta"
\* the text processWithAI returns when the call fails, and the text the catch
\* of handleIncomingMessage sends: the same words
FallbackText == "Lo siento, tuve un problema procesando tu mensaje. Podrias intentarlo de nuevo?"
ErrorText    == "Lo siento, tuve un problema procesando tu mensaje. Podrias intentarlo de nuevo?"

Messages == { [from |-> p, type |-> "text", body |-> "Hola"] : p \in Phones }

RECURSIVE SeqsUpTo(_, _)
SeqsUpTo(S, n) ==
    IF n = 0 THEN { <<>> }
    ELSE LET shorter == SeqsUpTo(S, n - 1)
         IN  shorter \cup { Append(s, x) : s \in shorter, x \in S }

\* request bodies: entry is a list of messages, or is missing
Bodies == { [wellFormed |-> TRUE, entry |-> ms] : ms \in SeqsUpTo(Messages, MaxMsgs) }
            \cup { [wellFormed |-> FALSE, entry |-> <<>>] }

\* values of the x-hub-signature-256 header
Signatures == { NoHeader, <<>> }
                \cup { <<"sha256=">> \o d : d \in SeqsUpTo(Hex, DigestLen) }

VARIABLES
    now,        \* wall clock (Date), in hours
    isReady,    \* this.isReady
    sessions,   \* this.sessions: phone -> index into objs, 0 when absent
    objs,       \* the session objects ever allocated (the map holds references)
    turns,      \* executions of handleIncomingMessage
    reqs,       \* webhook deliveries received
    calls,      \* delivery operations invoked from outside a turn
    health,     \* the answer of the last GET /health
    arg,        \* the input handed to a pure function under test
    out,        \* the values the function returned for it
    lifecycle   \* history: the transport's last lifecycle event

vars == <<now, isReady, sessions, objs, turns, reqs, calls, health, arg, out,
          lifecycle>>

\* the variables that only the read-only surface and the function checks use
aside == <<health, arg, out, lifecycle>>

\* ------------------------------------------------------- signature verifier
RECURSIVE Checksum(_)
Checksum(ms) ==
    IF ms = <<>> THEN 1 ELSE Len(Head(ms).from) + 2 * Checksum(Tail(ms))

\* JSON.stringify(body) fed to the keyed hash: a deterministic digest of
\* DigestLen hex characters
RECURSIVE HexDigest(_, _)
HexDigest(n, len) ==
    IF len = 0 THEN <<>>
    ELSE <<IF n % 2 = 0 THEN "a" ELSE "b">> \o HexDigest(n \div 2, len - 1)

createHmacDigest(body) ==
    HexDigest(IF body.wellFormed THEN Checksum(body.entry) ELSE 0, DigestLen)

expectedSignature(body) == <<"sha256=">> \o createHmacDigest(body)

\* crypto.timingSafeEqual: throws RangeError when the byte lengths differ
timingSafeEqual(a, b) ==
    IF Len(a) # Len(b) THEN [kind |-> "throw", value |-> FALSE]
    ELSE [kind |-> "return", value |-> (a = b)]

\* verifySignature without the comparison: any non-empty header passes
verifySignatureLenient(body, signature) ==
    IF signature = NoHeader \/ signature = <<>>
    THEN [kind |-> "return", value |-> FALSE]
    ELSE [kind |-> "return", value |-> TRUE]

verifySignature(body, signature) ==
    IF signature = NoHeader \/ signature = <<>>
    THEN [kind |-> "return", value |-> FALSE]
    ELSE timingSafeEqual(signature, expectedSignature(body))

\* --------------------------------------------------------------- normalizer
\* a field the payload does not carry (JavaScript's undefined)
Undefined == "<undefined>"

\* v || d : the default stands in for a field that is absent or empty
OrElse(v, d) == IF v \in {Undefined, ""} THEN d ELSE v

\* ${v} in a template: an absent field is written out as the word undefined
Render(v) == IF v = Undefined THEN "undefined" ELSE v

\* a normalizer whose switch has no case for video
extractMessageContentNoVideo(message) ==
    CASE message.type = "text"     -> <<message.body>>
      [] message.type = "image"    ->
            <<"[Imagen: ", OrElse(message.caption, "Sin descripcion"), "]">>
      [] message.type = "audio"    -> <<"[Audio]">>
      [] message.type = "document" ->
            <<"[Documento: ", OrElse(message.body, "Sin nombre"), "]">>
      [] message.type = "location" ->
            <<"[Ubicacion: ", Render(message.lat), ", ", Render(message.lng), "]">>
      [] OTHER                     -> <<"[Mensaje no soportado]">>

\* The value is the list of the pieces whose concatenation the code returns;
\* for a text it is the body itself (undefined when the payload has none).
extractMessageContent(message) ==
    CASE message.type = "text"     -> <<message.body>>
      [] message.type = "image"    ->
            <<"[Imagen: ", OrElse(message.caption, "Sin descripcion"), "]">>
      [] message.type = "video"    ->
            <<"[Video: ", OrElse(message.caption, "Sin descripcion"), "]">>
      [] message.type = "audio"    -> <<"[Audio]">>
      [] message.type = "document" ->
            <<"[Documento: ", OrElse(message.body, "Sin nombre"), "]">>
      [] message.type = "location" ->
            <<"[Ubicacion: ", Render(message.lat), ", ", Render(message.lng), "]">>
      [] OTHER                     -> <<"[Mensaje no soportado]">>

\* ------------------------------------------------------------ phone address
\* a formatter that puts the country prefix in front of every number
formatPhoneNumberAlways(phone) ==
    LET cleaned == SelectSeq(phone, LAMBDA c : c \in Digits)
    IN  Append(<<"5","0","6">> \o cleaned, "@c.us")

\* the address is a sequence of characters; the suffix "@c.us" is kept as one
\* element, which \D strips like any other non-digit
formatPhoneNumber(phone) ==
    LET cleaned == SelectSeq(phone, LAMBDA c : c \in Digits)
        prefixed == IF Len(cleaned) >= 3 /\ SubSeq(cleaned, 1, 3) = <<"5","0","6">>
                    THEN cleaned ELSE <<"5","0","6">> \o cleaned
    IN  Append(prefixed, "@c.us")

\* ------------------------------------------------------------ session store
\* outcomes of Math.random() in the id; with one outcome two ids differ only
\* by the clock
Randoms == {"r1"}

\* an id that does not take the time into it
generateConversationIdFixed(r) == <<"conv", 0, r>>

generateConversationId(r) == <<"conv", now, r>>

\* lines 169-178 with a lookup that always misses
getOrCreateAlways(ob, se, phone, r) ==
    [objs     |-> Append(ob, [phone |-> phone,
                              conversation_id |-> generateConversationId(r),
                              last_activity |-> now,
                              context |-> EmptyContext]),
     sessions |-> [se EXCEPT ![phone] = Len(ob) + 1],
     ref      |-> Len(ob) + 1]

\* lines 169-178 with a store that puts a removed record of the user back
\* instead of creating one
getOrCreateRevives(ob, se, phone, r) ==
    LET old == { o \in DOMAIN ob : ob[o].phone = phone }
    IN  IF se[phone] # 0
        THEN [objs |-> ob, sessions |-> se, ref |-> se[phone]]
        ELSE IF old # {}
        THEN LET o == CHOOSE o \in old : TRUE
             IN  [objs |-> ob, sessions |-> [se EXCEPT ![phone] = o], ref |-> o]
        ELSE getOrCreateAlways(ob, se, phone, r)

\* let session = this.sessions.get(phone); if (!session) { ...; this.sessions.set }
getOrCreate(ob, se, phone, r) ==
    IF se[phone] # 0
    THEN [objs |-> ob, sessions |-> se, ref |-> se[phone]]
    ELSE [objs     |-> Append(ob, [phone |-> phone,
                                   conversation_id |-> generateConversationId(r),
                                   last_activity |-> now,
                                   context |-> EmptyContext]),
          sessions |-> [se EXCEPT ![phone] = Len(ob) + 1],
          ref      |-> Len(ob) + 1]

\* ------------------------------------------------------------------- turns
\* pc of a turn: where handleIncomingMessage is suspended
\*   "reasoning"   awaiting axios.post of processWithAI          (line 227)
\*   "sending"     awaiting client.sendMessage of the reply      (line 187/263)
\*   "errSending"  awaiting client.sendMessage of the error text (line 197/263)
\*   "done"        returned
InFlight(t) == t.pc \in {"reasoning", "sending", "errSending"}

NoResponse == [response |-> "", context |-> NoContext]

\* a turn that does not touch the session it found (no line 181)
BeginTurnNoTouch(ob, se, tu, message, q, r) ==
    LET phone   == message.from
        content == extractMessageContent(message)
        res     == getOrCreate(ob, se, phone, r)
        ob2     == res.objs
        over    == { j \in DOMAIN tu : InFlight(tu[j]) /\ tu[j].phone = phone }
        t == [phone      |-> phone,
              req        |-> q,
              pc         |-> "reasoning",
              session    |-> res.ref,
              request    |-> [user_id    |-> phone,
                              message    |-> content,
                              session_id |-> ob2[res.ref].conversation_id,
                              context    |-> ob2[res.ref].context],
              aiResponse |-> NoResponse,
              sends      |-> <<>>,
              \* history, not program state
              t0         |-> now,
              created    |-> (se[phone] = 0),
              ok         |-> "pending",
              rseq       |-> 0,
              wrote      |-> FALSE,
              ctx0       |-> ob2[res.ref].context,
              overlapped |-> (over # {})]
    IN  [objs     |-> ob2,
         sessions |-> res.sessions,
         turns    |-> Append([j \in DOMAIN tu |->
                                 IF j \in over THEN [tu[j] EXCEPT !.overlapped = TRUE]
                                 ELSE tu[j]], t)]

\* handleIncomingMessage up to its first suspension (lines 161-184, 225-237):
\* normalise, resolve the session, touch it, post the request to the engine.
\* q is the webhook delivery the message came in, 0 for a client 'message' event.
BeginTurn(ob, se, tu, message, q, r) ==
    LET phone   == message.from
        content == extractMessageContent(message)
        res     == getOrCreate(ob, se, phone, r)
        ob2     == [res.objs EXCEPT ![res.ref].last_activity = now]
        over    == { j \in DOMAIN tu : InFlight(tu[j]) /\ tu[j].phone = phone }
        t == [phone      |-> phone,
              req        |-> q,
              pc         |-> "reasoning",
              session    |-> res.ref,
              request    |-> [user_id    |-> phone,
                              message    |-> content,
                              session_id |-> ob2[res.ref].conversation_id,
                              context    |-> ob2[res.ref].context],
              aiResponse |-> NoResponse,
              sends      |-> <<>>,
              \* history, not program state
              t0         |-> now,
              created    |-> (se[phone] = 0),
              ok         |-> "pending",
              rseq       |-> 0,
              wrote      |-> FALSE,
              ctx0       |-> ob2[res.ref].context,
              overlapped |-> (over # {})]
    IN  [objs     |-> ob2,
         sessions |-> res.sessions,
         turns    |-> Append([j \in DOMAIN tu |->
                                 IF j \in over THEN [tu[j] EXCEPT !.overlapped = TRUE]
                                 ELSE tu[j]], t)]

\* the inbound messages received so far: a delivery counts for the messages it
\* carries (for one when it carries none), a client event for one
Weight(body) == IF body.entry = <<>> THEN 1 ELSE Len(body.entry)

RECURSIVE Delivered(_, _)
Delivered(rq, n) ==
    IF n = 0 THEN 0 ELSE Delivered(rq, n - 1) + Weight(rq[n].body)

Inbound == Cardinality({ i \in DOMAIN turns : turns[i].req = 0 })
           + Delivered(reqs, Len(reqs))

\* the route handler's loop resumes after `await this.handleIncomingMessage`
\* (lines 41-51): the next message begins its turn, or the 200 is sent
Resume(ob, se, tu, rq, q, r) ==
    IF q = 0
    THEN [objs |-> ob, sessions |-> se, turns |-> tu, reqs |-> rq]
    ELSE IF rq[q].pos < Len(rq[q].body.entry)
    THEN LET b == BeginTurn(ob, se, tu, rq[q].body.entry[rq[q].pos + 1], q, r)
         IN  [objs |-> b.objs, sessions |-> b.sessions, turns |-> b.turns,
              reqs |-> [rq EXCEPT ![q].pos = @ + 1]]
    ELSE [objs |-> ob, sessions |-> se, turns |-> tu,
          reqs |-> [rq EXCEPT ![q].status = "200"]]

Install(s) ==
    /\ objs' = s.objs
    /\ sessions' = s.sessions
    /\ turns' = s.turns
    /\ reqs' = s.reqs

\* ------------------------------------------------------------- the actions
\* no GET /health was answered yet
NoAnswer == [answered |-> FALSE, whatsapp_ready |-> FALSE, sessions |-> 0]

Init ==
    /\ now = 0
    /\ isReady = FALSE
    /\ sessions = [p \in Phones |-> 0]
    /\ objs = <<>>
    /\ turns = <<>>
    /\ reqs = <<>>
    /\ calls = <<>>
    /\ health = NoAnswer
    /\ arg = <<>>
    /\ out = <<>>
    /\ lifecycle = [last |-> "none", initFailed |-> FALSE]

\* client.on('message'): one execution of handleIncomingMessage per event
ClientMessage ==
    \E m \in Messages, r \in Randoms :
        /\ Inbound < MaxInbound
        /\ LET b == BeginTurn(objs, sessions, turns, m, 0, r)
           IN  /\ objs' = b.objs
               /\ sessions' = b.sessions
               /\ turns' = b.turns
        /\ UNCHANGED <<now, isReady, reqs, calls, aside>>

\* POST /webhook: the signature middleware (lines 25-32), then the route handler
\* up to its first suspension (lines 37-56).  A throw inside the middleware goes
\* to the framework's error handler, which answers 500.
WebhookPost ==
    \E body \in Bodies, signature \in Signatures, r \in Randoms :
        LET v == verifySignature(body, signature)
            q == Len(reqs) + 1
            \* pos: the message of the delivery whose turn began last; entered:
            \* the route handler ran; auth: what verifySignature did; before: the
            \* turns begun before the delivery arrived (auth, before: history)
            rec(st, pos) == [signature |-> signature, body |-> body,
                             status |-> st, pos |-> IF pos < 0 THEN 0 ELSE pos,
                             entered |-> (pos >= 0), auth |-> v,
                             before |-> Len(turns)]
        IN  /\ Len(reqs) < MaxReqs
            /\ Inbound + Weight(body) <= MaxInbound
            /\ IF v.kind = "throw"
               THEN /\ reqs' = Append(reqs, rec("500", -1))
                    /\ UNCHANGED <<objs, sessions, turns>>
               ELSE IF ~v.value
               THEN /\ reqs' = Append(reqs, rec("401", -1))
                    /\ UNCHANGED <<objs, sessions, turns>>
               ELSE IF ~body.wellFormed
               THEN /\ reqs' = Append(reqs, rec("500", 0))
                    /\ UNCHANGED <<objs, sessions, turns>>
               ELSE IF body.entry = <<>>
               THEN /\ reqs' = Append(reqs, rec("200", 0))
                    /\ UNCHANGED <<objs, sessions, turns>>
               ELSE /\ LET b == BeginTurn(objs, sessions, turns, body.entry[1], q, r)
                       IN  /\ objs' = b.objs
                           /\ sessions' = b.sessions
                           /\ turns' = b.turns
                    /\ reqs' = Append(reqs, rec("handling", 1))
            /\ UNCHANGED <<now, isReady, calls, aside>>

\* sendMessage with the transport ready: the address is formatted and the
\* message handed to client.sendMessage (lines 257-263)
Attempt(phone, message) ==
    [message |-> message, to |-> formatPhoneNumber(phone), outcome |-> "pending"]

\* sendMessage with the transport not ready: it throws before any send (line 253)
Refused(message) ==
    [message |-> message, to |-> <<>>, outcome |-> "notReady"]

\* the number of reasoning calls that have completed so far
Completed(tu) == Cardinality({ j \in DOMAIN tu : tu[j].rseq > 0 })

\* the turn resumes with the value processWithAI returns (ai), then calls
\* sendMessage (line 187).  With the transport not ready sendMessage throws at
\* once (line 253), the catch of line 192 calls it again (line 197), it throws
\* again and the turn returns without having suspended.
AfterReasoning(i, ai, okflag, r) ==
    LET t1 == [turns[i] EXCEPT !.aiResponse = ai, !.ok = okflag,
                               !.rseq = Completed(turns) + 1]
    IN  IF isReady
        THEN /\ turns' = [turns EXCEPT ![i] =
                            [t1 EXCEPT !.pc = "sending",
                                       !.sends = <<Attempt(t1.phone, ai.response)>>]]
             /\ UNCHANGED <<objs, sessions, reqs>>
        ELSE LET t2 == [t1 EXCEPT !.pc = "done",
                                  !.sends = <<Refused(ai.response), Refused(ErrorText)>>]
             IN  Install(Resume(objs, sessions, [turns EXCEPT ![i] = t2],
                                reqs, t2.req, r))

\* axios.post resolves: processWithAI returns response.data (line 239)
ReasoningReply(i) ==
    \E c \in Contexts \cup {NoContext}, r \in Randoms :
        /\ turns[i].pc = "reasoning"
        /\ AfterReasoning(i, [response |-> EngineText, context |-> c], "ok", r)
        /\ UNCHANGED <<now, isReady, calls, aside>>

\* axios.post rejects (transport error or non-2xx): the catch of line 241
\* returns the fallback text with the session's context as it is now
ReasoningFail(i) ==
    \E r \in Randoms :
        /\ turns[i].pc = "reasoning"
        /\ AfterReasoning(i, [response |-> FallbackText,
                              context  |-> objs[turns[i].session].context],
                          "failed", r)
        /\ UNCHANGED <<now, isReady, calls, aside>>

\* a context update that adds the returned keys to the ones the session has
UpdateContextMerges(ob, t) ==
    [ob EXCEPT ![t.session].context =
        IF t.aiResponse.context # NoContext THEN @ \cup t.aiResponse.context ELSE @]

\* a context update that looks the user's session up in the store again
\* instead of writing to the object the turn holds
UpdateContextStored(ob, t) ==
    LET o == IF sessions[t.phone] # 0 THEN sessions[t.phone] ELSE t.session
    IN  [ob EXCEPT ![o].context =
            IF t.aiResponse.context # NoContext THEN t.aiResponse.context ELSE @]

\* session.context = aiResponse.context || session.context  (line 190)
UpdateContext(ob, t) ==
    [ob EXCEPT ![t.session].context =
        IF t.aiResponse.context # NoContext THEN t.aiResponse.context ELSE @]

\* a turn that falls into its catch after the reply was sent, and sends the
\* error text as well
SendOkThenError(i) ==
    /\ turns[i].pc = "sending"
    /\ isReady
    /\ turns' = [turns EXCEPT ![i] =
                    [@ EXCEPT !.pc = "errSending", !.sends[1].outcome = "sent",
                              !.sends = Append(@, Attempt(turns[i].phone, ErrorText))]]
    /\ UNCHANGED <<now, isReady, objs, sessions, reqs, calls, aside>>

\* a route whose loop takes up the next message before the turn that ended
\* has assigned its context
SendOkResumesFirst(i) ==
    \E r \in Randoms :
        /\ turns[i].pc = "sending"
        /\ LET t2 == [turns[i] EXCEPT !.pc = "done", !.wrote = TRUE,
                                      !.sends[1].outcome = "sent"]
               s  == Resume(objs, sessions, [turns EXCEPT ![i] = t2], reqs, t2.req, r)
           IN  Install([s EXCEPT !.objs = UpdateContext(s.objs, turns[i])])
        /\ UNCHANGED <<now, isReady, calls, aside>>

\* client.sendMessage of the reply resolves: sendMessage returns, line 190 runs
\* and the turn returns
SendOk(i) ==
    \E r \in Randoms :
        /\ turns[i].pc = "sending"
        /\ LET t2 == [turns[i] EXCEPT !.pc = "done", !.wrote = TRUE,
                                      !.sends[1].outcome = "sent"]
           IN  Install(Resume(UpdateContext(objs, turns[i]), sessions,
                              [turns EXCEPT ![i] = t2], reqs, t2.req, r))
        /\ UNCHANGED <<now, isReady, calls, aside>>

\* a turn that asks the reasoning engine again when the delivery has failed
SendFailAsksAgain(i) ==
    /\ turns[i].pc = "sending"
    /\ turns' = [turns EXCEPT ![i] = [@ EXCEPT !.pc = "reasoning",
                                               !.sends[1].outcome = "error"]]
    /\ UNCHANGED <<now, isReady, objs, sessions, reqs, calls, aside>>

\* client.sendMessage of the reply rejects: sendMessage rethrows (line 286),
\* line 190 is skipped, the catch of line 192 sends the error text (line 197)
SendFail(i) ==
    \E r \in Randoms :
        /\ turns[i].pc = "sending"
        /\ LET t1 == [turns[i] EXCEPT !.sends[1].outcome = "error"]
           IN  IF isReady
               THEN /\ turns' = [turns EXCEPT ![i] =
                                   [t1 EXCEPT !.pc = "errSending",
                                              !.sends = Append(@, Attempt(t1.phone, ErrorText))]]
                    /\ UNCHANGED <<objs, sessions, reqs>>
               ELSE LET t2 == [t1 EXCEPT !.pc = "done",
                                         !.sends = Append(@, Refused(ErrorText))]
                    IN  Install(Resume(objs, sessions, [turns EXCEPT ![i] = t2],
                                       reqs, t2.req, r))
        /\ UNCHANGED <<now, isReady, calls, aside>>

\* a turn without the inner try of line 196: the rejection of the error text's
\* send leaves handleIncomingMessage and reaches the catch of the route
ErrSendSettledRaises(i) ==
    \E outcome \in {"sent", "error"}, r \in Randoms :
        /\ turns[i].pc = "errSending"
        /\ LET t2 == [turns[i] EXCEPT !.pc = "done", !.sends[2].outcome = outcome]
           IN  IF outcome = "error" /\ t2.req # 0
               THEN /\ turns' = [turns EXCEPT ![i] = t2]
                    /\ reqs' = [reqs EXCEPT ![t2.req].status = "500"]
                    /\ UNCHANGED <<objs, sessions>>
               ELSE Install(Resume(objs, sessions, [turns EXCEPT ![i] = t2],
                                   reqs, t2.req, r))
        /\ UNCHANGED <<now, isReady, calls, aside>>

\* client.sendMessage of the error text settles; a rejection is caught and
\* logged (line 199); either way the turn returns
ErrSendSettled(i) ==
    \E outcome \in {"sent", "error"}, r \in Randoms :
        /\ turns[i].pc = "errSending"
        /\ LET t2 == [turns[i] EXCEPT !.pc = "done", !.sends[2].outcome = outcome]
           IN  Install(Resume(objs, sessions, [turns EXCEPT ![i] = t2],
                              reqs, t2.req, r))
        /\ UNCHANGED <<now, isReady, calls, aside>>

\* The three handlers of the lifecycle events and InitializeFails say nothing
\* of the history variable lifecycle: a specification that is to remember the
\* events adds the record of the event to the step (Noted), every other one
\* leaves lifecycle alone.
\* client.on('ready')
ClientReady ==
    /\ isReady' = TRUE
    /\ UNCHANGED <<now, sessions, objs, turns, reqs, calls, health, arg, out>>

\* client.on('auth_failure')
ClientAuthFailure ==
    /\ isReady' = FALSE
    /\ UNCHANGED <<now, sessions, objs, turns, reqs, calls, health, arg, out>>

\* a handler of 'disconnected' that leaves the flag as it is
ClientDisconnectedKeeps ==
    UNCHANGED <<now, isReady, sessions, objs, turns, reqs, calls, health, arg, out>>

\* client.on('disconnected')
ClientDisconnected ==
    /\ isReady' = FALSE
    /\ UNCHANGED <<now, sessions, objs, turns, reqs, calls, health, arg, out>>

\* a sweep that also removes a session idle for exactly the threshold
cleanupSessionsEager ==
    /\ sessions' = [p \in Phones |->
                       IF sessions[p] # 0 /\ now - objs[sessions[p]].last_activity >= maxAge
                       THEN 0 ELSE sessions[p]]
    /\ UNCHANGED <<now, isReady, objs, turns, reqs, calls, aside>>

\* the hourly sweep
cleanupSessions ==
    /\ sessions' = [p \in Phones |->
                       IF sessions[p] # 0 /\ now - objs[sessions[p]].last_activity > maxAge
                       THEN 0 ELSE sessions[p]]
    /\ UNCHANGED <<now, isReady, objs, turns, reqs, calls, aside>>

\* time passes
Tick ==
    \E d \in TickSteps :
        /\ now + d <= MaxTime
        /\ now' = now + d
        /\ UNCHANGED <<isReady, sessions, objs, turns, reqs, calls, aside>>

Next ==
    \/ ClientMessage
    \/ WebhookPost
    \/ \E i \in DOMAIN turns : ReasoningReply(i)
    \/ \E i \in DOMAIN turns : ReasoningFail(i)
    \/ \E i \in DOMAIN turns : SendOk(i)
    \/ \E i \in DOMAIN turns : SendFail(i)
    \/ \E i \in DOMAIN turns : ErrSendSettled(i)
    \/ ClientReady /\ UNCHANGED lifecycle
    \/ ClientAuthFailure /\ UNCHANGED lifecycle
    \/ ClientDisconnected /\ UNCHANGED lifecycle
    \/ cleanupSessions
    \/ Tick

Spec == Init /\ [][Next]_vars

\* the traffic alone: inbound messages, turns and transport events, with no
\* clock and no sweep
NextTurns ==
    \/ ClientMessage
    \/ WebhookPost
    \/ \E i \in DOMAIN turns : ReasoningReply(i)
    \/ \E i \in DOMAIN turns : ReasoningFail(i)
    \/ \E i \in DOMAIN turns : SendOk(i)
    \/ \E i \in DOMAIN turns : SendFail(i)
    \/ \E i \in DOMAIN turns : ErrSendSettled(i)
    \/ ClientReady /\ UNCHANGED lifecycle
    \/ ClientAuthFailure /\ UNCHANGED lifecycle
    \/ ClientDisconnected /\ UNCHANGED lifecycle

TurnsSpec == Init /\ [][NextTurns]_vars

\* The event loop runs every continuation whose promise has settled, and the
\* timers fire; the transport is granted to settle every send.  Nothing obliges
\* the reasoning engine to answer.
TransportSettles == \E i \in DOMAIN turns : SendOk(i) \/ SendFail(i) \/ ErrSendSettled(i)

NextLive ==
    \/ ClientMessage
    \/ \E i \in DOMAIN turns : ReasoningReply(i)
    \/ \E i \in DOMAIN turns : ReasoningFail(i)
    \/ \E i \in DOMAIN turns : SendOk(i)
    \/ \E i \in DOMAIN turns : SendFail(i)
    \/ \E i \in DOMAIN turns : ErrSendSettled(i)
    \/ ClientReady /\ UNCHANGED lifecycle
    \/ ClientDisconnected /\ UNCHANGED lifecycle
    \/ cleanupSessions
    \/ Tick

LiveSpec ==
    /\ Init /\ [][NextLive]_vars
    /\ WF_vars(TransportSettles)
    /\ WF_vars(Tick)
    /\ WF_vars(cleanupSessions)

\* ------------------------------------------- delivery outside of the turns
\* POST /send and the exported helpers call the delivery operations directly.
\* They read isReady and touch neither the sessions nor the turns, so they are
\* explored in a specification of their own, beside the transport's events.
MaxCalls == 2       \* delivery operations invoked in one behaviour

\* "sticker" stands for every type that takes the default branch of the switch
Types   == {"text", "image", "button", "list", "sticker"}
Helpers == {"sendWelcomeMessage", "sendPaymentLink", "sendOrderUpdate"}

\* the HTTP answer of a call: only POST /send has one
Answer(op, pc) ==
    IF op # "POST /send" THEN "none"
    ELSE IF pc = "returned" THEN "200"
    ELSE IF pc = "threw" THEN "500"
    ELSE "pending"

\* sendMessage up to its first suspension: the readiness guard (line 252),
\* then the address and the switch on the type.  Types button and list go to
\* the Business API (sendButtonMessage, sendListMessage), every other type to
\* client.sendMessage.  net counts the network send attempts.
sendMessage(op, phone, type) ==
    IF ~isReady
    THEN [op |-> op, phone |-> phone, type |-> type, to |-> <<>>, ready |-> FALSE,
          net |-> 0, pc |-> "threw", result |-> "notReady",
          status |-> Answer(op, "threw")]
    ELSE LET pc == IF type \in {"button", "list"} THEN "graph" ELSE "client"
         IN  [op |-> op, phone |-> phone, type |-> type,
              to |-> formatPhoneNumber(phone), ready |-> TRUE,
              net |-> 1, pc |-> pc, result |-> "none", status |-> Answer(op, pc)]

\* sendListMessage called directly: it builds the list and posts it to the
\* Business API (sendWhatsAppBusinessMessage) whatever isReady is
sendListMessage(op, phone) ==
    [op |-> op, phone |-> phone, type |-> "list", to |-> phone, ready |-> isReady,
     net |-> 1, pc |-> "graph", result |-> "none", status |-> Answer(op, "graph")]

\* POST /send
SendRoute ==
    \E phone \in Phones, type \in Types :
        /\ Len(calls) < MaxCalls
        /\ calls' = Append(calls, sendMessage("POST /send", phone, type))
        /\ UNCHANGED <<now, isReady, sessions, objs, turns, reqs, aside>>

\* sendWelcomeMessage, sendPaymentLink, sendOrderUpdate: a text through sendMessage
HelperCall ==
    \E h \in Helpers, phone \in Phones :
        /\ Len(calls) < MaxCalls
        /\ calls' = Append(calls, sendMessage(h, phone, "text"))
        /\ UNCHANGED <<now, isReady, sessions, objs, turns, reqs, aside>>

\* sendProductMenu: a list through sendListMessage, not through sendMessage
sendProductMenu ==
    \E phone \in Phones :
        /\ Len(calls) < MaxCalls
        /\ calls' = Append(calls, sendListMessage("sendProductMenu", phone))
        /\ UNCHANGED <<now, isReady, sessions, objs, turns, reqs, aside>>

\* the call ends: it returns or throws to its caller, and POST /send answers
Settle(k, pc, result) ==
    calls' = [calls EXCEPT ![k] = [@ EXCEPT !.pc = pc, !.result = result,
                                            !.status = Answer(calls[k].op, pc)]]

\* client.sendMessage settles: sendMessage returns {success: true, message_id}
\* (line 282) or rethrows the rejection (line 286)
ClientSendSettles(k) ==
    \E outcome \in {"sent", "error"} :
        /\ calls[k].pc = "client"
        /\ IF outcome = "sent" THEN Settle(k, "returned", "success")
                               ELSE Settle(k, "threw", "error")
        /\ UNCHANGED <<now, isReady, sessions, objs, turns, reqs, aside>>

\* the post to the Business API settles.  sendProductMenu returns response.data
\* as it is.  sendMessage reads result.id._serialized of it (line 282): when the
\* data has no id that read throws, and the catch of line 284 rethrows.
GraphSettles(k) ==
    \E outcome \in {"data", "dataWithId", "error"} :
        /\ calls[k].pc = "graph"
        /\ IF outcome = "error" THEN Settle(k, "threw", "error")
           ELSE IF calls[k].op = "sendProductMenu" THEN Settle(k, "returned", "data")
           ELSE IF outcome = "dataWithId" THEN Settle(k, "returned", "success")
           ELSE Settle(k, "threw", "error")
        /\ UNCHANGED <<now, isReady, sessions, objs, turns, reqs, aside>>

NextDelivery ==
    \/ SendRoute
    \/ HelperCall
    \/ sendProductMenu
    \/ \E k \in DOMAIN calls : ClientSendSettles(k)
    \/ \E k \in DOMAIN calls : GraphSettles(k)
    \/ ClientReady /\ UNCHANGED lifecycle
    \/ ClientAuthFailure /\ UNCHANGED lifecycle
    \/ ClientDisconnected /\ UNCHANGED lifecycle

DeliverySpec == Init /\ [][NextDelivery]_vars

\* ------------------------------------------------------ the health surface
\* this.sessions.size
Size(se) == Cardinality({ p \in Phones : se[p] # 0 })

\* a health handler that sweeps the store before it counts
GetHealthSweeps ==
    /\ sessions' = [p \in Phones |->
                       IF sessions[p] # 0 /\ now - objs[sessions[p]].last_activity > maxAge
                       THEN 0 ELSE sessions[p]]
    /\ health' = [answered |-> TRUE, whatsapp_ready |-> isReady,
                  sessions |-> Size(sessions')]
    /\ UNCHANGED <<now, isReady, objs, turns, reqs, calls, arg, out, lifecycle>>

\* GET /health
GetHealth ==
    /\ health' = [answered |-> TRUE, whatsapp_ready |-> isReady,
                  sessions |-> Size(sessions)]
    /\ UNCHANGED <<now, isReady, sessions, objs, turns, reqs, calls, arg, out, lifecycle>>

\* client.initialize() rejects: the catch of line 155 logs and changes nothing
InitializeFails ==
    UNCHANGED <<now, isReady, sessions, objs, turns, reqs, calls, health, arg, out>>

\* the health surface beside what changes its two readings: the transport's
\* events, the messages that create sessions, the clock and the sweep.  The
\* later steps of a turn change neither the store's size nor isReady.
Noted(e) == lifecycle' = [lifecycle EXCEPT !.last = e]

NextHealth ==
    \/ GetHealth
    \/ InitializeFails /\ lifecycle' = [lifecycle EXCEPT !.initFailed = TRUE]
    \/ ClientReady /\ Noted("ready")
    \/ ClientAuthFailure /\ Noted("auth_failure")
    \/ ClientDisconnected /\ Noted("disconnected")
    \/ ClientMessage
    \/ cleanupSessions
    \/ Tick

HealthSpec == Init /\ [][NextHealth]_vars

\* ------------------------------------------------- the functions by themselves
\* extractMessageContent and formatPhoneNumber read no state: each is applied,
\* more than once, to an input drawn from a bounded set.
MaxApply == 2       \* applications of the function to its input

\* "sticker" stands for every type the switch has no case for; a payload may
\* also lack its type
RawTypes == {"text", "image", "video", "audio", "document", "location",
             "sticker", Undefined}
RawTexts == {Undefined, "", "Hola"}
RawCoords == {Undefined, "9.93"}
RawMessages ==
    [type : RawTypes, body : RawTexts, caption : RawTexts,
     lat : RawCoords, lng : RawCoords]

\* everything but arg is as after construction
InitWith(inputs) ==
    /\ now = 0
    /\ isReady = FALSE
    /\ sessions = [p \in Phones |-> 0]
    /\ objs = <<>>
    /\ turns = <<>>
    /\ reqs = <<>>
    /\ calls = <<>>
    /\ health = NoAnswer
    /\ arg \in inputs
    /\ out = <<>>
    /\ lifecycle = [last |-> "none", initFailed |-> FALSE]

ExtractInit == InitWith(RawMessages)

\* const messageContent = this.extractMessageContent(message)
Normalize ==
    /\ Len(out) < MaxApply
    /\ out' = Append(out, extractMessageContent(arg))
    /\ UNCHANGED <<now, isReady, sessions, objs, turns, reqs, calls, health, arg,
                   lifecycle>>

ExtractSpec == ExtractInit /\ [][Normalize]_vars

MaxPhoneLen == 4    \* characters of a destination identifier

PhoneChars == {"5", "0", "6", "8", "+"}
Identifiers == SeqsUpTo(PhoneChars, MaxPhoneLen)

FormatInit == InitWith(Identifiers)

\* const formattedPhone = this.formatPhoneNumber(phone): first of the
\* identifier, then of the address it returned
Format ==
    /\ Len(out) < MaxApply
    /\ out' = Append(out, formatPhoneNumber(IF out = <<>> THEN arg ELSE out[Len(out)]))
    /\ UNCHANGED <<now, isReady, sessions, objs, turns, reqs, calls, health, arg,
                   lifecycle>>

FormatSpec == FormatInit /\ [][Format]_vars

\* ------------------------------------------------------------------ claims
SignatureMatches(rq) == rq.signature = expectedSignature(rq.body)

TurnEnds(i) == turns[i].pc # "done" /\ turns'[i].pc = "done"

\* C1: a webhook request whose signature header is absent or differs from the
\* expected keyed hash of its body never enters the route handler: in the step
\* that receives it no session is created or modified and no turn (reasoning
\* call, delivery) begins or changes, and no turn ever belongs to it.
C1_RejectedNeverEnters ==
    [][\A q \in DOMAIN reqs' :
          ~SignatureMatches(reqs'[q]) =>
              /\ ~reqs'[q].entered
              /\ \A i \in DOMAIN turns' : turns'[i].req # q
              /\ q \notin DOMAIN reqs => UNCHANGED <<sessions, objs, turns, isReady>>]_vars

\* a request with a bad signature was rejected while a session existed and a
\* turn was suspended
C1_Witness ==
    \E q \in DOMAIN reqs :
        /\ ~SignatureMatches(reqs[q])
        /\ reqs[q].signature # NoHeader
        /\ reqs[q].before > 0
        /\ reqs[q].body.entry # <<>>
        /\ sessions[reqs[q].body.entry[1].from] # 0
        /\ \E i \in DOMAIN turns : InFlight(turns[i])

\* C2: verifySignature returns a boolean for every (body, signature) and never
\* throws; a missing or malformed signature (wrong length included) yields false.
C2_VerifyNeverThrows ==
    \A q \in DOMAIN reqs :
        /\ reqs[q].auth.kind = "return"
        /\ ~SignatureMatches(reqs[q]) => reqs[q].auth.value = FALSE

\* C3: every webhook request that fails signature verification is answered 401.
C3_FailureAnswered401 ==
    \A q \in DOMAIN reqs :
        ~SignatureMatches(reqs[q]) => reqs[q].status = "401"

C5_ContextIsReturned ==
    [][\A i \in DOMAIN turns :
          (/\ TurnEnds(i)
           /\ turns'[i].ok = "ok"
           /\ ~turns'[i].overlapped
           /\ turns'[i].aiResponse.context # NoContext)
          => objs'[turns[i].session].context = turns'[i].aiResponse.context]_vars

\* C6: if the reasoning call of a turn fails, the turn leaves the session's
\* context as it found it (the context after each step of the turn equals the
\* context before it) and the reply it hands to delivery is the fixed fallback
\* text.
C6_FailedTurnKeepsContext ==
    [][\A i \in DOMAIN turns :
          (turns[i].pc # turns'[i].pc /\ turns'[i].ok = "failed")
          => /\ turns'[i].sends[1].message = FallbackText
             /\ objs'[turns[i].session].context = objs[turns[i].session].context]_vars

\* C7: a context returned by a reasoning call is never written to the session
\* after the context returned by a reasoning call that completed later.
C7_NoStaleWrite ==
    [][\A i, j \in DOMAIN turns :
          (/\ ~turns[i].wrote /\ turns'[i].wrote
           /\ turns[i].ok = "ok" /\ turns[i].aiResponse.context # NoContext
           /\ j # i /\ turns[j].session = turns[i].session
           /\ turns[j].wrote
           /\ turns[j].ok = "ok" /\ turns[j].aiResponse.context # NoContext)
          => turns[j].rseq < turns[i].rseq]_vars

\* C8: turns of one userId are serialized: no turn of a user has invoked the
\* reasoning engine while an earlier turn of that user is between its reasoning
\* invocation and its context update.
C8_Serialized ==
    \A i, j \in DOMAIN turns :
        (i < j /\ turns[i].phone = turns[j].phone /\ InFlight(turns[j]))
        => turns[i].pc \notin {"reasoning", "sending"}

\* the next message of delivery q begins its turn while turn i stays suspended
BeginsBeside(q, i) ==
    Next /\ reqs'[q].pos > reqs[q].pos /\ InFlight(turns'[i])

\* C9: a pending message of user B can begin its turn while a turn of another
\* user A is suspended, also when both came in the same webhook delivery.
C9_CrossUserParallel ==
    \A q \in DOMAIN reqs : \A i \in DOMAIN turns :
        (/\ reqs[q].status = "handling"
         /\ turns[i].req = q /\ InFlight(turns[i])
         /\ reqs[q].pos < Len(reqs[q].body.entry)
         /\ reqs[q].body.entry[reqs[q].pos + 1].from # turns[i].phone)
        => ENABLED BeginsBeside(q, i)

\* C10: every turn suspended in its reasoning call eventually leaves it, even
\* when the reasoning engine never answers.
C10_ReasoningBounded ==
    \A i \in 1..MaxInbound :
        (i \in DOMAIN turns /\ turns[i].pc = "reasoning")
            ~> (i \in DOMAIN turns /\ turns[i].pc # "reasoning")

\* C11: whenever the transport is not ready, every delivery operation invoked
\* (sendMessage of any type, sendWelcomeMessage, sendProductMenu,
\* sendPaymentLink, sendOrderUpdate) fails at once and makes no network send
\* attempt.
C11_NotReadyNoAttempt ==
    \A k \in DOMAIN calls :
        ~calls[k].ready => calls[k].net = 0 /\ calls[k].pc = "threw"

\* C12: one run of the sweep removes exactly the sessions whose last_activity is
\* more than 24 hours before the time of the sweep; every other session stays
\* in the store, and no session record and no turn is changed by it, whatever
\* turns are in flight.
C12_SweepRemovesExactlyIdle ==
    [][cleanupSessions =>
          /\ \A p \in Phones :
                sessions'[p] = IF sessions[p] # 0
                                  /\ now - objs[sessions[p]].last_activity > 24
                               THEN 0 ELSE sessions[p]
          /\ objs' = objs
          /\ turns' = turns]_vars

\* a sweep has removed one user's session while that user's turn was in flight
\* and has kept the session of another user
C12_Witness ==
    \E p, q \in Phones :
        /\ sessions[p] = 0
        /\ \E i \in DOMAIN turns : turns[i].phone = p /\ InFlight(turns[i])
        /\ sessions[q] # 0
        /\ now - objs[sessions[q]].last_activity <= 24
        /\ now > 24

\* C13: the sweep never removes the session of a user while a turn of that user
\* is in flight, so that the context update of a turn in progress is not lost.
C13_NoEvictionMidTurn ==
    [][\A p \in Phones :
          (sessions[p] # 0 /\ sessions'[p] = 0)
              => ~ \E i \in DOMAIN turns : turns[i].phone = p /\ InFlight(turns[i])]_vars

\* the sends of a turn that reached the transport
Attempts(t) == { n \in DOMAIN t.sends : t.sends[n].outcome # "notReady" }

\* C14: when the delivery of a turn's reply fails, the turn makes no further
\* delivery attempt: a turn performs at most one delivery attempt.
C14_OneDeliveryAttempt ==
    \A i \in DOMAIN turns : Cardinality(Attempts(turns[i])) <= 1

\* the turns begun for the messages of delivery q
TurnsOf(tu, q) == { i \in DOMAIN tu : tu[i].req = q }

\* C15: the reasoning engine is invoked at most once for each inbound message.
\* A step begins at most one turn, a delivery has begun exactly one turn for
\* each of its messages taken up so far, a turn whose reasoning call has ended
\* never enters it again (neither after a reasoning failure nor after a
\* delivery failure), and the request it posted is never posted anew.
C15_ReasoningOncePerMessage ==
    [][/\ Len(turns') <= Len(turns) + 1
       /\ \A q \in DOMAIN reqs' :
             Cardinality(TurnsOf(turns', q)) = reqs'[q].pos
       /\ \A i \in DOMAIN turns :
             /\ turns'[i].request = turns[i].request
             /\ turns[i].pc # "reasoning" => turns'[i].pc # "reasoning"]_vars

\* a turn has ended after its reasoning call failed and both its sends failed
C15_Witness ==
    \E i \in DOMAIN turns :
        /\ turns[i].pc = "done"
        /\ turns[i].ok = "failed"
        /\ Len(turns[i].sends) = 2
        /\ \A n \in DOMAIN turns[i].sends : turns[i].sends[n].outcome = "error"

\* C16: sendMessage reports every failure (transport not ready, transport
\* error) to its caller as a returned result with success = false, and a
\* success as a returned result with success = true and the message id; it
\* never raises to its caller.  (Every call but sendProductMenu goes through
\* sendMessage; POST /send answers 500 only when sendMessage has raised.)
C16_SendMessageReturnsResult ==
    \A k \in DOMAIN calls :
        calls[k].op # "sendProductMenu" =>
            /\ calls[k].pc # "threw"
            /\ calls[k].status # "500"
            /\ calls[k].pc = "returned" => calls[k].result = "success"

\* C17: a turn never raises to its caller, whether the reasoning call fails,
\* the transport is not ready or a delivery (that of the error text included)
\* fails.  So a webhook delivery with well-formed entries that went past the
\* verifier is never answered with an error: it is answered 200, and that
\* exactly when a turn has been begun for each of its messages and all of them
\* have ended.
C17_TurnNeverRaises ==
    \A q \in DOMAIN reqs :
        (reqs[q].entered /\ reqs[q].body.wellFormed) =>
            /\ reqs[q].status \in {"handling", "200"}
            /\ reqs[q].status = "200" <=>
                  /\ reqs[q].pos = Len(reqs[q].body.entry)
                  /\ \A i \in TurnsOf(turns, q) : turns[i].pc = "done"

\* a delivery of two messages was answered 200 although one of its turns lost
\* its reasoning call and both its sends, and another met a transport not ready
C17_Witness ==
    \E q \in DOMAIN reqs :
        /\ reqs[q].status = "200"
        /\ Len(reqs[q].body.entry) = 2
        /\ \E i, j \in TurnsOf(turns, q) :
              /\ turns[i].ok = "failed"
              /\ Len(turns[i].sends) = 2
              /\ turns[i].sends[1].outcome = "error"
              /\ turns[i].sends[2].outcome = "error"
              /\ turns[j].sends[1].outcome = "notReady"

\* C18: in every turn that found the transport ready and whose send did not
\* fail, exactly one reply is delivered to the sender: the engine's response
\* text when the reasoning call succeeded, the fallback text when it failed.
C18_ExactlyOneReply ==
    \A i \in DOMAIN turns :
        (turns[i].pc = "done" /\ turns[i].sends[1].outcome = "sent") =>
            /\ Len(turns[i].sends) = 1
            /\ turns[i].sends[1].to = formatPhoneNumber(turns[i].phone)
            /\ turns[i].ok = "ok" => turns[i].sends[1].message = EngineText
            /\ turns[i].ok = "failed" => turns[i].sends[1].message = FallbackText

\* both cases have happened: a reply with the engine's text and a reply with
\* the fallback text were delivered
C18_Witness ==
    \E i, j \in DOMAIN turns :
        /\ turns[i].pc = "done" /\ turns[i].sends[1].outcome = "sent"
        /\ turns[i].ok = "ok"
        /\ turns[j].pc = "done" /\ turns[j].sends[1].outcome = "sent"
        /\ turns[j].ok = "failed"

\* the turns that a step begins
Begun == DOMAIN turns' \ DOMAIN turns

\* C19: the first inbound message of a user who has no session creates one: a
\* new record in the store under the user's id, with a conversation id
\* generated at that moment, an empty context and last_activity equal to the
\* current time; and the reasoning engine is invoked with that conversation id
\* and the empty context.
C19_FirstMessageCreatesSession ==
    [][\A i \in Begun :
          LET p == turns'[i].phone
          IN  sessions[p] = 0 =>
                /\ sessions'[p] # 0
                /\ sessions'[p] \notin DOMAIN objs
                /\ turns'[i].session = sessions'[p]
                /\ objs'[sessions'[p]].phone = p
                /\ objs'[sessions'[p]].conversation_id
                      \in { <<"conv", now', r>> : r \in Randoms }
                /\ objs'[sessions'[p]].context = {}
                /\ objs'[sessions'[p]].last_activity = now'
                /\ turns'[i].pc = "reasoning"
                /\ turns'[i].request.user_id = p
                /\ turns'[i].request.session_id = objs'[sessions'[p]].conversation_id
                /\ turns'[i].request.context = {}]_vars

\* a user whose earlier session had a context and was swept has sent a message
\* later on: the turn created a session
C19_Witness ==
    \E i \in DOMAIN turns, o \in DOMAIN objs :
        /\ turns[i].created
        /\ objs[o].phone = turns[i].phone
        /\ o < turns[i].session
        /\ objs[o].context # {}
        /\ objs[turns[i].session].last_activity > 0

\* C20: as long as a user's session stays in the store its conversation id
\* does not change.  No step alters the id of a record or puts another record
\* in the place of a stored one; a turn begun for a user who has a session
\* posts the id stored for that user; and a record, with its new id, is added
\* only by a turn begun for a user who had no session.
C20_ConversationIdStable ==
    [][/\ \A o \in DOMAIN objs :
             objs'[o].conversation_id = objs[o].conversation_id
       /\ \A p \in Phones :
             (sessions[p] # 0 /\ sessions'[p] # 0) => sessions'[p] = sessions[p]
       /\ \A i \in Begun :
             LET p == turns'[i].phone
             IN  /\ turns'[i].request.session_id = objs'[sessions'[p]].conversation_id
                 /\ sessions[p] # 0 =>
                       turns'[i].request.session_id = objs[sessions[p]].conversation_id
       /\ Len(objs') > Len(objs) =>
             /\ Len(objs') = Len(objs) + 1
             /\ \E i \in Begun : sessions[turns'[i].phone] = 0]_vars

\* a user's second turn began a day after the first, on the session the first
\* one created, and posted the same id
C20_Witness ==
    \E i, j \in DOMAIN turns :
        /\ i < j
        /\ turns[i].phone = turns[j].phone
        /\ turns[i].created /\ ~turns[j].created
        /\ turns[j].session = sessions[turns[j].phone]
        /\ objs[turns[j].session].last_activity = 24
        /\ turns[j].request.session_id = turns[i].request.session_id
        /\ turns[j].request.session_id[2] = 0

\* the sends of turn i that a step sees delivered
NewlySent(i) ==
    { n \in DOMAIN turns'[i].sends :
        /\ turns'[i].sends[n].outcome = "sent"
        /\ n \in DOMAIN turns[i].sends => turns[i].sends[n].outcome # "sent" }

\* C21: a session's last_activity is the time of the user's most recent
\* inbound or outbound event: it is set to the current time when an inbound
\* message is received and when a reply is delivered.
C21_LastActivityIsLatestEvent ==
    [][/\ \A i \in Begun :
             objs'[turns'[i].session].last_activity = now'
       /\ \A i \in DOMAIN turns :
             NewlySent(i) # {} => objs'[turns[i].session].last_activity = now']_vars

\* the session object that turn i holds is no longer the one stored for its user
Detached(i) == sessions[turns[i].phone] # turns[i].session

\* C22: a turn that goes on after its user's session was evicted drops its
\* context update silently.  No step of such a turn puts its session back in
\* the store (the store changes for that user only when a message taken up in
\* the same step creates a new record), none changes the context of the
\* session stored for the user at that time, and the turn goes on to its end
\* without an error reaching the delivery it belongs to.
C22_EvictedTurnDropsUpdate ==
    [][\A i \in DOMAIN turns :
          (Detached(i) /\ turns'[i].pc # turns[i].pc) =>
              LET p == turns[i].phone
              IN  /\ sessions'[p] # turns[i].session
                  /\ sessions'[p] # sessions[p] =>
                        /\ sessions'[p] \notin DOMAIN objs
                        /\ \E j \in Begun : turns'[j].phone = p
                  /\ sessions[p] # 0 =>
                        objs'[sessions[p]].context = objs[sessions[p]].context
                  /\ turns'[i].pc \in {"sending", "errSending", "done"}
                  /\ turns[i].req # 0 => reqs'[turns[i].req].status # "500"]_vars

\* a turn ended and wrote a returned context after its session was evicted and
\* a newer session was created for the user; the newer session's context is
\* still empty
C22_Witness ==
    \E i \in DOMAIN turns :
        /\ turns[i].pc = "done" /\ turns[i].wrote
        /\ turns[i].aiResponse.context = {"k1"}
        /\ sessions[turns[i].phone] # 0
        /\ sessions[turns[i].phone] # turns[i].session
        /\ objs[turns[i].session].context = {"k1"}
        /\ objs[sessions[turns[i].phone]].context = {}

\* C23: the health request is read-only.  A step that changes the stored
\* answer reports the readiness flag and the number of sessions as they are at
\* that moment, and leaves the store, every session record, the turns and the
\* transport's flag as they were.
C23_HealthReadOnly ==
    [][health' # health =>
          /\ health'.answered
          /\ health'.whatsapp_ready = isReady
          /\ health'.sessions = Cardinality({ p \in Phones : sessions[p] # 0 })
          /\ UNCHANGED <<sessions, objs, turns, isReady, now>>]_vars

\* the health request was answered "ready, two sessions"; both sessions are
\* still stored, one of them idle beyond the threshold, and the transport is
\* still ready
C23_Witness ==
    /\ health = [answered |-> TRUE, whatsapp_ready |-> TRUE, sessions |-> 2]
    /\ isReady
    /\ \A p \in Phones : sessions[p] # 0
    /\ \E p \in Phones : now - objs[sessions[p]].last_activity > maxAge

\* C24: the readiness flag is false initially and is true exactly when the
\* transport's most recent lifecycle event (ready, auth_failure, disconnected)
\* was ready; a failed initialization leaves it as it was, so false when no
\* ready came.  The health surface reports that value.
C24_FlagFollowsLifecycle ==
    /\ [](isReady <=> lifecycle.last = "ready")
    /\ [][health' # health =>
             health'.whatsapp_ready = (lifecycle.last = "ready")]_vars

\* the health request answered "not ready" after the initialization had failed
\* and the transport was disconnected
C24_Witness ==
    /\ lifecycle = [last |-> "disconnected", initFailed |-> TRUE]
    /\ health = [answered |-> TRUE, whatsapp_ready |-> FALSE, sessions |-> 1]
    /\ ~isReady

\* the body form of each type, as the normalizer's contract states it
BodyForm(m) ==
    CASE m.type = "text"     -> <<m.body>>
      [] m.type = "image"    -> <<"[Imagen: ",
                                  IF m.caption \in {Undefined, ""}
                                  THEN "Sin descripcion" ELSE m.caption, "]">>
      [] m.type = "video"    -> <<"[Video: ",
                                  IF m.caption \in {Undefined, ""}
                                  THEN "Sin descripcion" ELSE m.caption, "]">>
      [] m.type = "audio"    -> <<"[Audio]">>
      [] m.type = "document" -> <<"[Documento: ",
                                  IF m.body \in {Undefined, ""}
                                  THEN "Sin nombre" ELSE m.body, "]">>
      [] m.type = "location" -> <<"[Ubicacion: ",
                                  IF m.lat = Undefined THEN "undefined" ELSE m.lat,
                                  ", ",
                                  IF m.lng = Undefined THEN "undefined" ELSE m.lng,
                                  "]">>
      [] OTHER               -> <<"[Mensaje no soportado]">>

Bracketed == {"image", "video", "audio", "document", "location"}

\* C25: the normalizer is a total, deterministic function of the message.
\* Every application to the same payload yields the same value; that value is
\* the body form of the payload's type (audio: the fixed "[Audio]"; a type
\* without a case, or no type: the one fixed placeholder); and the forms of
\* image, video, audio, document, location and the placeholder are each their
\* own: payloads of two different such types never get the same value.
C25_NormalizerTotalDeterministic ==
    \A n \in DOMAIN out :
        /\ out[n] = out[1]
        /\ out[n] = BodyForm(arg)
        /\ arg.type \notin Bracketed \cup {"text"} => out[n] = <<"[Mensaje no soportado]">>
        /\ arg.type # "text" =>
              \A m \in RawMessages :
                  (m.type # "text" /\ extractMessageContent(m) = out[n]) =>
                      \/ m.type = arg.type
                      \/ {m.type, arg.type} \cap Bracketed = {}

\* a video without a caption was normalized twice
C25_Witness ==
    /\ Len(out) = 2
    /\ arg.type = "video" /\ arg.caption = Undefined
    /\ out[2] = <<"[Video: ", "Sin descripcion", "]">>

\* the digits of an identifier, in their order
DigitsOf(id) == SelectSeq(id, LAMBDA c : c \in {"0","1","2","3","4","5","6","7","8","9"})

HasPrefix(d) == Len(d) >= 3 /\ d[1] = "5" /\ d[2] = "0" /\ d[3] = "6"

\* C26: formatPhoneNumber maps every identifier to an address made of digits
\* only, beginning with 506 and followed by the suffix @c.us; the prefix is
\* added exactly when the identifier's digits do not begin with it already;
\* and formatting an address it has formatted returns the address unchanged.
C26_FormatPhoneNumber ==
    out # <<>> =>
        LET a == out[1]
            d == SubSeq(a, 1, Len(a) - 1)
        IN  /\ a[Len(a)] = "@c.us"
            /\ d = DigitsOf(d)
            /\ HasPrefix(d)
            /\ d = IF HasPrefix(DigitsOf(arg)) THEN DigitsOf(arg)
                   ELSE <<"5", "0", "6">> \o DigitsOf(arg)
            /\ \A n \in DOMAIN out : out[n] = a

\* an identifier with a sign and without the prefix was formatted, and the
\* address was formatted again
C26_Witness ==
    /\ Len(out) = 2
    /\ arg = <<"+", "8", "6", "8">>
    /\ out[2] = <<"5", "0", "6", "8", "6", "8", "@c.us">>

\* C27: in every turn whose reasoning call succeeded the session's context is
\* replaced with the context the engine returned before the delivery of the
\* reply is attempted: once the reply has been handed to the transport (or
\* refused by it), the returned context is in the session, whether or not the
\* delivery succeeds.
C27_ContextBeforeDelivery ==
    [][\A i \in DOMAIN turns :
          (/\ turns[i].sends = <<>> /\ turns'[i].sends # <<>>
           /\ turns'[i].ok = "ok"
           /\ turns'[i].aiResponse.context # NoContext)
              => objs'[turns[i].session].context = turns'[i].aiResponse.context]_vars

\* C28: when two turns of one user overlap, one with a failed reasoning call
\* and one with a successful call, the failed turn never overwrites the context
\* the successful turn wrote: once both have ended the session holds the
\* context the successful call returned, whichever ended first.
C28_FailedNeverOverwrites ==
    \A i, j \in DOMAIN turns :
        (/\ turns[i].session = turns[j].session
         /\ turns[i].overlapped /\ turns[j].overlapped
         /\ turns[i].pc = "done" /\ turns[j].pc = "done"
         /\ turns[i].ok = "ok" /\ turns[i].wrote
         /\ turns[i].aiResponse.context # NoContext
         /\ turns[j].ok = "failed"
         /\ \A k \in DOMAIN turns : turns[k].session = turns[i].session => k \in {i, j})
            => objs[turns[i].session].context = turns[i].aiResponse.context

\* the contexts that successful reasoning calls have returned for user p
ReturnedFor(p) ==
    { turns[i].aiResponse.context :
        i \in { k \in DOMAIN turns : /\ turns[k].phone = p
                                     /\ turns[k].ok = "ok"
                                     /\ turns[k].aiResponse.context # NoContext } }

\* C29: the context of every session is the empty context or a whole value
\* that a successful reasoning call returned for the same user, never one
\* returned for another user; and it is never a merge: the step in which a
\* successful turn writes leaves in the session exactly the value that turn's
\* call returned.
C29_ContextWholeValue ==
    /\ [](\A o \in DOMAIN objs :
             objs[o].context \in {EmptyContext} \cup ReturnedFor(objs[o].phone))
    /\ [][\A i \in DOMAIN turns :
             (/\ ~turns[i].wrote /\ turns'[i].wrote
              /\ turns'[i].ok = "ok"
              /\ turns'[i].aiResponse.context # NoContext)
                 => objs'[turns[i].session].context = turns'[i].aiResponse.context]_vars

\* two successful turns of one user wrote, one a context with a key and one
\* the empty context; the session holds the empty one, so the later write
\* replaced the key instead of keeping it
C29_Witness ==
    \E i, j \in DOMAIN turns :
        /\ turns[i].session = turns[j].session
        /\ turns[i].ok = "ok" /\ turns[i].wrote /\ turns[i].aiResponse.context = {"k1"}
        /\ turns[j].ok = "ok" /\ turns[j].wrote /\ turns[j].aiResponse.context = {}
        /\ objs[turns[i].session].context = {}

\* C30: the fixed fallback text is delivered to a user only in a turn whose
\* reasoning call failed: in a turn whose reasoning call succeeded every
\* message delivered to the user is the engine's response text.
C30_FallbackOnlyOnFailure ==
    \A i \in DOMAIN turns :
        turns[i].ok = "ok" =>
            \A n \in DOMAIN turns[i].sends :
                turns[i].sends[n].outcome = "sent" =>
                    /\ turns[i].sends[n].message = turns[i].aiResponse.response
                    /\ turns[i].sends[n].message # FallbackText

\* the turn begun for the n-th message of delivery q
TurnAt(tu, q, n) == CHOOSE i \in TurnsOf(tu, q) : Cardinality({ k \in TurnsOf(tu, q) : k <= i }) = n

C32_ContextOrPrior ==
    [][\A i \in DOMAIN turns :
          (TurnEnds(i) /\ turns'[i].ok = "ok") =>
              objs'[turns[i].session].context =
                  IF turns'[i].aiResponse.context = NoContext
                  THEN objs[turns[i].session].context
                  ELSE turns'[i].aiResponse.context]_vars

\* C33: every turn sets the session's last_activity to the current time before
\* it starts the reasoning call (in the step that posts the request), so a
\* sweep that runs while a turn's network calls have been pending for no more
\* than the idle threshold does not evict that turn's session.
C33_TouchBeforeReasoning ==
    [][/\ \A i \in Begun :
             /\ turns'[i].pc = "reasoning"
             /\ objs'[turns'[i].session].last_activity = now'
       /\ \A p \in Phones :
             (sessions[p] # 0 /\ sessions'[p] = 0) =>
                 \A i \in DOMAIN turns :
                     (turns[i].session = sessions[p] /\ InFlight(turns[i]))
                         => now - turns[i].t0 > 24]_vars

\* a session created a day before was found by a turn that has just begun and
\* is pending; the session is stored and, touched by that turn, out of the
\* sweep's reach although its creation lies beyond the threshold
C33_Witness ==
    \E i \in DOMAIN turns :
        /\ InFlight(turns[i])
        /\ ~turns[i].created
        /\ turns[i].t0 = now
        /\ sessions[turns[i].phone] = turns[i].session
        /\ now - objs[turns[i].session].conversation_id[2] > 24
        /\ objs[turns[i].session].last_activity = now

\* the records of user p that are no longer in the store
EvictedOf(p) == { o \in DOMAIN objs : objs[o].phone = p /\ sessions[p] # o }

\* C34: after the sweep evicted a user's session, the next inbound message of
\* that user creates a new session: a new record whose conversation id differs
\* from the id of every evicted record of the user and whose context is empty;
\* the engine is invoked with the empty context, so nothing of the evicted
\* session's context is carried over.
C34_NewSessionAfterEviction ==
    [][\A i \in Begun :
          LET p == turns'[i].phone
          IN  (sessions[p] = 0 /\ EvictedOf(p) # {}) =>
                /\ sessions'[p] \notin DOMAIN objs
                /\ turns'[i].session = sessions'[p]
                /\ \A o \in EvictedOf(p) :
                      /\ objs'[sessions'[p]].conversation_id # objs[o].conversation_id
                      /\ turns'[i].request.session_id # objs[o].conversation_id
                /\ objs'[sessions'[p]].context = EmptyContext
                /\ turns'[i].request.context = EmptyContext]_vars

\* a user whose session held a context was evicted and wrote again: the
\* stored session is a newer record with another id, and the turn posted the
\* empty context
C34_Witness ==
    \E i \in DOMAIN turns, o \in DOMAIN objs :
        /\ objs[o].phone = turns[i].phone
        /\ objs[o].context = {"k1"}
        /\ o # turns[i].session
        /\ sessions[turns[i].phone] = turns[i].session
        /\ turns[i].created
        /\ turns[i].request.context = {}
        /\ turns[i].request.session_id # objs[o].conversation_id
        /\ turns[i].pc = "reasoning"

====
